---- MODULE Spec2Model ----
(***************************************************************************)
(* A model of Firmware/communication/ascii_protocol.cpp: the frame         *)
(* assembler ASCII_protocol_parse_stream, the command dispatcher           *)
(* ASCII_protocol_process_line, the response encoder respond, and the      *)
(* binary codecs parse_dual_current, parse_coupled_command and             *)
(* send_motor_positions.                                                   *)
(*                                                                         *)
(* Bytes are integers 0..255, C strings are sequences of bytes.  A float   *)
(* is held as an integer number of millionths (1.5 is 1500000): every      *)
(* value the bounded inputs produce is exact in that representation, and   *)
(* below 2^31 in magnitude.                                                *)
(* char is unsigned, size_t and unsigned are 32 bit (the ARM target).      *)
(***************************************************************************)
EXTENDS Integers, Sequences, FiniteSets, TLC

(* ------------------------------------------------------------------ *)
(* Program constants                                                  *)
(* ------------------------------------------------------------------ *)
MAX_LINE_LENGTH == 128
RESPONSE_SIZE == 64
START_BYTE == 1
NEWLINE == 10
AXIS_COUNT == 2

\* enum RXState { IDLING, READ_LEN, READ_PAYLOAD, READ_PAYLOAD_UNTIL_NL }
IDLING == 0
READ_LEN == 1
READ_PAYLOAD == 2
READ_PAYLOAD_UNTIL_NL == 3

\* character codes of the command tags and of the characters the scanners read
CH_NUL == 0
CH_SPACE == 32
CH_PERCENT == 37
CH_STAR == 42
CH_PLUS == 43
CH_MINUS == 45
CH_DOT == 46
CH_0 == 48
CH_9 == 57
CH_C == 67
CH_P == 80
CH_S == 83
CH_c == 99
CH_f == 102
CH_h == 104
CH_i == 105
CH_p == 112
CH_q == 113
CH_r == 114
CH_s == 115
CH_t == 116
CH_u == 117
CH_v == 118
CH_w == 119
CH_CR == 13

\* fixed-point scale of the float representation, and the multipliers of the codecs
MICRO == 1000000
DUAL_MULTIPLIER == 100
COUPLED_SCALE == 1000
POS_MULTIPLIER == 1000
GAIN_MULTIPLIER == 100
SEND_MULTIPLIER == 1000
ANGLE_LIMIT == 30
HALF_PI_MICRO == 1570796

(* ------------------------------------------------------------------ *)
(* Bounds of the model                                                *)
(* ------------------------------------------------------------------ *)
\* Spec: bytes given to the assembler in all, and in one call
MaxBytes == 5
MaxChunk == 2
\* SpecFrames: frames in the stream
MaxFrames == 2
\* SpecFlood: bytes sent beyond the capacity of the line buffer
MaxOverrun == 2
\* SpecDispatch: lines given to the dispatcher
MaxDispatch == 2

(* ------------------------------------------------------------------ *)
(* Bytes, sequences                                                   *)
(* ------------------------------------------------------------------ *)
Byte == 0..255

Min(a, b) == IF a < b THEN a ELSE b

RECURSIVE Xor(_, _)
\* bitwise exclusive or of two naturals (the ^ of uint8_t operands)
Xor(a, b) ==
    IF a = 0 THEN b
    ELSE IF b = 0 THEN a
    ELSE (((a % 2) + (b % 2)) % 2) + 2 * Xor(a \div 2, b \div 2)

RECURSIVE XorRange(_, _, _)
\* s[lo] ^ ... ^ s[hi], 0 for an empty range: ^ is associative, so the range
\* is folded by halves
XorRange(s, lo, hi) ==
    IF lo > hi THEN 0
    ELSE IF lo = hi THEN s[lo]
    ELSE Xor(XorRange(s, lo, (lo + hi) \div 2), XorRange(s, ((lo + hi) \div 2) + 1, hi))

\* checksum = 0; for each byte b of s: checksum ^= b
XorFold(s) == XorRange(s, 1, Len(s))

\* n copies of b
Repeat(b, n) == [i \in 1..n |-> b]

Take(s, n) == SubSeq(s, 1, Min(n, Len(s)))
Drop(s, n) == SubSeq(s, n + 1, Len(s))

RECURSIVE Flatten(_)
Flatten(ss) == IF ss = <<>> THEN <<>> ELSE Head(ss) \o Flatten(Tail(ss))

\* the C string held in a char array: the bytes before the first NUL
NulAt(s) == {i \in 1..Len(s) : s[i] = CH_NUL}

\* strlen
CStrLen(s) ==
    IF NulAt(s) = {} THEN Len(s)
    ELSE (CHOOSE i \in NulAt(s) : \A j \in NulAt(s) : i <= j) - 1

CStr(s) == SubSeq(s, 1, CStrLen(s))

\* division truncating toward zero, as a float-to-integer cast does
TruncDiv(a, b) == IF a >= 0 THEN a \div b ELSE -((-a) \div b)

(* ------------------------------------------------------------------ *)
(* printf conversions used by respond's callers                       *)
(* ------------------------------------------------------------------ *)
RECURSIVE Dec(_)
\* "%u" / "%d" of a natural: its decimal digits
Dec(n) == IF n < 10 THEN <<CH_0 + n>> ELSE Dec(n \div 10) \o <<CH_0 + (n % 10)>>

RECURSIVE ZeroPad(_, _)
ZeroPad(digits, width) ==
    IF Len(digits) >= width THEN digits ELSE ZeroPad(<<CH_0>> \o digits, width)

Abs(x) == IF x < 0 THEN -x ELSE x

\* "%f" of a value held in millionths: sign, integer part, '.', six decimals
FmtFloat(v) ==
    (IF v < 0 THEN <<CH_MINUS>> ELSE <<>>)
        \o Dec(Abs(v) \div MICRO) \o <<CH_DOT>> \o ZeroPad(Dec(Abs(v) % MICRO), 6)

(* ------------------------------------------------------------------ *)
(* sscanf conversions used by ASCII_protocol_process_line             *)
(* ------------------------------------------------------------------ *)
IsSpace(c) == c \in {32, 9, 10, 11, 12, 13}
IsDigit(c) == c >= CH_0 /\ c <= CH_9

RECURSIVE SkipSpace(_, _)
\* index of the first non-white-space character at or after i (Len+1: end of input)
SkipSpace(s, i) ==
    IF i <= Len(s) /\ IsSpace(s[i]) THEN SkipSpace(s, i + 1) ELSE i

RECURSIVE DigitsEnd(_, _)
\* index after the run of decimal digits that starts at i
DigitsEnd(s, i) ==
    IF i <= Len(s) /\ IsDigit(s[i]) THEN DigitsEnd(s, i + 1) ELSE i

RECURSIVE DecValue(_, _, _, _)
\* value of the digits s[i..j-1], accumulated on acc
DecValue(s, i, j, acc) ==
    IF i >= j THEN acc ELSE DecValue(s, i + 1, j, acc * 10 + (s[i] - CH_0))

RECURSIVE Pow10(_)
Pow10(n) == IF n <= 0 THEN 1 ELSE 10 * Pow10(n - 1)

HasSign(s, a) == a <= Len(s) /\ s[a] \in {CH_PLUS, CH_MINUS}

\* A 32-bit unsigned is held as its two 16-bit halves [hi, lo].
U32(n) == [hi |-> n \div 65536, lo |-> n % 65536]

\* -u modulo 2^32
Neg32(u) ==
    IF u.lo = 0 THEN [hi |-> (65536 - u.hi) % 65536, lo |-> 0]
    ELSE [hi |-> 65535 - u.hi, lo |-> 65536 - u.lo]

\* u >= n for a small natural n (motor_number >= AXIS_COUNT)
Geq32(u, n) == u.hi > 0 \/ u.lo >= n

RECURSIVE Dec32(_)
\* "%u" of a 32-bit unsigned: long division by ten on the two halves
Dec32(u) ==
    LET mid == (u.hi % 10) * 65536 + u.lo
    IN  IF u.hi \div 10 = 0 /\ mid \div 10 = 0 THEN <<CH_0 + (mid % 10)>>
        ELSE Dec32([hi |-> u.hi \div 10, lo |-> mid \div 10]) \o <<CH_0 + (mid % 10)>>

\* The scanners below are written as chains of operators, each passing what it
\* found to the next: a is where the item starts (after white space), b where
\* its digits start (after a sign), e where they end.

\* "%u", the digits s[b..e-1] read: a '-' negates the value modulo 2^32, as
\* strtoul does (runs of up to nine digits, which fit).
\* eof: the input ended before any character of the item (an input failure).
UnsignedValue(s, a, b, e) ==
    [ok |-> e > b, eof |-> a > Len(s),
     val |-> IF HasSign(s, a) /\ s[a] = CH_MINUS
             THEN Neg32(U32(DecValue(s, b, e, 0))) ELSE U32(DecValue(s, b, e, 0)),
     next |-> e]

UnsignedDigits(s, a, b) == UnsignedValue(s, a, b, DigitsEnd(s, b))

UnsignedItem(s, a) == UnsignedDigits(s, a, IF HasSign(s, a) THEN a + 1 ELSE a)

\* "%u" from index i: white space is skipped, then an optional sign and digits
ScanUnsigned(s, i) == UnsignedItem(s, SkipSpace(s, i))

\* "%f", the integer digits s[b..e1-1] and the fraction digits s[e1+1..e2-1]
\* read (e2 = e1 without a '.'): at least one digit is needed.  The value is
\* in millionths: six decimals are kept.
FloatValue(s, a, b, e1, e2) ==
    LET nFrac == IF e2 > e1 THEN e2 - (e1 + 1) ELSE 0
        kept == Min(nFrac, 6)
        frac == IF kept = 0 THEN 0
                ELSE DecValue(s, e1 + 1, e1 + 1 + kept, 0) * Pow10(6 - kept)
        mag == DecValue(s, b, e1, 0) * MICRO + frac
    IN  [ok |-> (e1 - b) + nFrac > 0, eof |-> a > Len(s),
         val |-> IF HasSign(s, a) /\ s[a] = CH_MINUS THEN -mag ELSE mag,
         next |-> e2]

FloatFraction(s, a, b, e1) ==
    FloatValue(s, a, b, e1,
               IF e1 <= Len(s) /\ s[e1] = CH_DOT THEN DigitsEnd(s, e1 + 1) ELSE e1)

FloatDigits(s, a, b) == FloatFraction(s, a, b, DigitsEnd(s, b))

FloatItem(s, a) == FloatDigits(s, a, IF HasSign(s, a) THEN a + 1 ELSE a)

\* "%f" from index i, in decimal notation: white space, optional sign, digits
\* with an optional '.'
ScanFloat(s, i) == FloatItem(s, SkipSpace(s, i))

RECURSIVE ScanFloats(_, _, _)
RECURSIVE ScanFloatsFrom(_, _, _)
\* the values of up to n successive " %f" conversions from index i: scanning
\* stops at the first conversion that fails
ScanFloats(s, i, n) ==
    IF n = 0 THEN <<>> ELSE ScanFloatsFrom(s, ScanFloat(s, i), n)

\* f is the conversion just made
ScanFloatsFrom(s, f, n) ==
    IF f.ok THEN <<f.val>> \o ScanFloats(s, f.next, n - 1) ELSE <<>>

\* numscan is the number of conversions assigned, or EOF (-1) when the input
\* ends before the first
ScanResult(u, vals) ==
    [numscan |-> IF u.ok THEN 1 + Len(vals) ELSE IF u.eof THEN -1 ELSE 0,
     motor_number |-> u.val,
     vals |-> vals]

ScanArgs(s, u, nfloat) ==
    ScanResult(u, IF u.ok THEN ScanFloats(s, u.next, nfloat) ELSE <<>>)

ScanLine(s, nfloat) == ScanArgs(s, ScanUnsigned(s, 2), nfloat)

\* sscanf(cmd, "<tag> %u %f ... %f", &motor_number, ...) with nfloat "%f"s.
\* cmd[0] is the tag, so the literal matches.
ScanCmd(cmd, nfloat) == ScanLine(CStr(cmd), nfloat)

(* ------------------------------------------------------------------ *)
(* The texts of the responses (character codes)                       *)
(* ------------------------------------------------------------------ *)
\* "invalid command format"
MSG_INVALID_FORMAT ==
    <<105, 110, 118, 97, 108, 105, 100, 32, 99, 111, 109, 109, 97, 110, 100,
    32, 102, 111, 114, 109, 97, 116>>

\* "invalid motor "
MSG_INVALID_MOTOR ==
    <<105, 110, 118, 97, 108, 105, 100, 32, 109, 111, 116, 111, 114, 32>>

\* "Failed on parse or checksum: "
MSG_FAILED_DUAL ==
    <<70, 97, 105, 108, 101, 100, 32, 111, 110, 32, 112, 97, 114, 115, 101,
    32, 111, 114, 32, 99, 104, 101, 99, 107, 115, 117, 109, 58, 32>>

\* "Failed to parse coupled command: "
MSG_FAILED_COUPLED ==
    <<70, 97, 105, 108, 101, 100, 32, 116, 111, 32, 112, 97, 114, 115, 101,
    32, 99, 111, 117, 112, 108, 101, 100, 32, 99, 111, 109, 109, 97, 110,
    100, 58, 32>>

\* "unknown command"
MSG_UNKNOWN ==
    <<117, 110, 107, 110, 111, 119, 110, 32, 99, 111, 109, 109, 97, 110,
    100>>

\* "invalid property"
MSG_INVALID_PROPERTY ==
    <<105, 110, 118, 97, 108, 105, 100, 32, 112, 114, 111, 112, 101, 114,
    116, 121>>

\* "not implemented"
MSG_NOT_IMPLEMENTED ==
    <<110, 111, 116, 32, 105, 109, 112, 108, 101, 109, 101, 110, 116, 101,
    100>>

\* "Hardware version: "
MSG_HW_VERSION ==
    <<72, 97, 114, 100, 119, 97, 114, 101, 32, 118, 101, 114, 115, 105, 111,
    110, 58, 32>>

\* "Firmware version: "
MSG_FW_VERSION ==
    <<70, 105, 114, 109, 119, 97, 114, 101, 32, 118, 101, 114, 115, 105, 111,
    110, 58, 32>>

\* "Serial number: "
MSG_SERIAL ==
    <<83, 101, 114, 105, 97, 108, 32, 110, 117, 109, 98, 101, 114, 58, 32>>

\* the lines of the help text, in the order they are sent
HELP_LINES ==
    <<
      \* "Please see documentation for more details"
      <<80, 108, 101, 97, 115, 101, 32, 115, 101, 101, 32, 100, 111, 99, 117,
        109, 101, 110, 116, 97, 116, 105, 111, 110, 32, 102, 111, 114, 32,
        109, 111, 114, 101, 32, 100, 101, 116, 97, 105, 108, 115>>,
      \* ""
      <<>>,
      \* "Available commands syntax reference:"
      <<65, 118, 97, 105, 108, 97, 98, 108, 101, 32, 99, 111, 109, 109, 97,
        110, 100, 115, 32, 115, 121, 110, 116, 97, 120, 32, 114, 101, 102,
        101, 114, 101, 110, 99, 101, 58>>,
      \* "Device Info: i"
      <<68, 101, 118, 105, 99, 101, 32, 73, 110, 102, 111, 58, 32, 105>>,
      \* "Position: q axis pos vel-lim I-lim"
      <<80, 111, 115, 105, 116, 105, 111, 110, 58, 32, 113, 32, 97, 120, 105,
        115, 32, 112, 111, 115, 32, 118, 101, 108, 45, 108, 105, 109, 32, 73,
        45, 108, 105, 109>>,
      \* "Position: p axis pos vel-ff I-ff"
      <<80, 111, 115, 105, 116, 105, 111, 110, 58, 32, 112, 32, 97, 120, 105,
        115, 32, 112, 111, 115, 32, 118, 101, 108, 45, 102, 102, 32, 73, 45,
        102, 102>>,
      \* "Velocity: v axis vel I-ff"
      <<86, 101, 108, 111, 99, 105, 116, 121, 58, 32, 118, 32, 97, 120, 105,
        115, 32, 118, 101, 108, 32, 73, 45, 102, 102>>,
      \* "Current: c axis I"
      <<67, 117, 114, 114, 101, 110, 116, 58, 32, 99, 32, 97, 120, 105, 115,
        32, 73>>,
      \* "Current to both motors with response: C I0 I1"
      <<67, 117, 114, 114, 101, 110, 116, 32, 116, 111, 32, 98, 111, 116,
        104, 32, 109, 111, 116, 111, 114, 115, 32, 119, 105, 116, 104, 32,
        114, 101, 115, 112, 111, 110, 115, 101, 58, 32, 67, 32, 73, 48, 32,
        73, 49>>,
      \* ""
      <<>>,
      \* "Properties start at odrive root, such as axis0.requested_state"
      <<80, 114, 111, 112, 101, 114, 116, 105, 101, 115, 32, 115, 116, 97,
        114, 116, 32, 97, 116, 32, 111, 100, 114, 105, 118, 101, 32, 114,
        111, 111, 116, 44, 32, 115, 117, 99, 104, 32, 97, 115, 32, 97, 120,
        105, 115, 48, 46, 114, 101, 113, 117, 101, 115, 116, 101, 100, 95,
        115, 116, 97, 116, 101>>,
      \* "Read: r property"
      <<82, 101, 97, 100, 58, 32, 114, 32, 112, 114, 111, 112, 101, 114, 116,
        121>>,
      \* "Write: w property value"
      <<87, 114, 105, 116, 101, 58, 32, 119, 32, 112, 114, 111, 112, 101,
        114, 116, 121, 32, 118, 97, 108, 117, 101>>,
      \* ""
      <<>>,
      \* "Save config: ss"
      <<83, 97, 118, 101, 32, 99, 111, 110, 102, 105, 103, 58, 32, 115,
        115>>,
      \* "Erase config: se"
      <<69, 114, 97, 115, 101, 32, 99, 111, 110, 102, 105, 103, 58, 32, 115,
        101>>,
      \* "Reboot: sr"
      <<82, 101, 98, 111, 111, 116, 58, 32, 115, 114>>
    >>

(* ------------------------------------------------------------------ *)
(* Build-time identity values (version.h, odrive_main.h)              *)
(* ------------------------------------------------------------------ *)
HW_VERSION_MAJOR == 3
HW_VERSION_MINOR == 5
HW_VERSION_VOLTAGE == 24
FW_VERSION_MAJOR == 0
FW_VERSION_MINOR == 4
FW_VERSION_REVISION == 7
\* serial_number_str
SERIAL_NUMBER_STR == <<51, 48, 55, 70>>

(* ------------------------------------------------------------------ *)
(* The device: axes, output sink, collaborators                       *)
(*                                                                    *)
(* A device value d is a record                                       *)
(*   axes      : axis number -> the fields of Axis this file touches  *)
(*   calls     : the collaborator calls made, in order                *)
(*   output    : the bytes given to StreamSink::process_bytes         *)
(*   responses : one entry per respond()/send_motor_positions() call  *)
(*   fault     : the processor stopped on a wild access               *)
(* Every operation returns the SET of devices it can leave behind:    *)
(* more than one where the C code's behaviour is undefined.           *)
(* ------------------------------------------------------------------ *)
AxisIdx == 0..(AXIS_COUNT - 1)

NewAxis(pos, vel) ==
    [pos_setpoint_ |-> 0, vel_limit |-> 0, current_lim |-> 0,
     pos_estimate_ |-> pos, vel_estimate_ |-> vel,
     coupled_setpoints |-> <<0, 0>>, coupled_gains |-> <<0, 0, 0, 0>>]

Call(d, fn, axis, args) ==
    [d EXCEPT !.calls = Append(@, [fn |-> fn, axis |-> axis, args |-> args])]

\* axis->controller_.set_pos_setpoint(pos, vel_ff, cur_ff)
set_pos_setpoint(d, a, pos, vff, cff) == Call(d, "set_pos_setpoint", a, <<pos, vff, cff>>)
\* axis->controller_.set_vel_setpoint(vel, cur_ff)
set_vel_setpoint(d, a, vel, cff) == Call(d, "set_vel_setpoint", a, <<vel, cff>>)
\* axis->controller_.set_current_setpoint(cur)
set_current_setpoint(d, a, cur) == Call(d, "set_current_setpoint", a, <<cur>>)
\* axis->controller_.move_to_pos(goal)
move_to_pos(d, a, goal) == Call(d, "move_to_pos", a, <<goal>>)
\* axis->watchdog_feed()
watchdog_feed(d, a) == Call(d, "watchdog_feed", a, <<>>)
\* save_configuration()
save_configuration(d) == Call(d, "save_configuration", -1, <<>>)

\* axes[a]->controller_.set_coupled_setpoints(theta, gamma): the controller keeps them
set_coupled_setpoints(d, a, theta, gamma) ==
    [Call(d, "set_coupled_setpoints", a, <<theta, gamma>>)
        EXCEPT !.axes[a].coupled_setpoints = <<theta, gamma>>]

\* axes[a]->controller_.set_coupled_gains(kp_theta, kd_theta, kp_gamma, kd_gamma)
set_coupled_gains(d, a, kpt, kdt, kpg, kdg) ==
    [Call(d, "set_coupled_gains", a, <<kpt, kdt, kpg, kdg>>)
        EXCEPT !.axes[a].coupled_gains = <<kpt, kdt, kpg, kdg>>]

\* axes[a]->controller_.encoder_to_rad(counts): ten counts are a radian here
encoder_to_rad(counts) == TruncDiv(counts, 10)

\* The property tree behind application_endpoints_: "v" can be read and
\* written, "c" exists but supports neither, no other name exists.
ENDPOINT_NAMES == {<<CH_v>>, <<CH_c>>}
get_by_name(name) == name \in ENDPOINT_NAMES
get_string(name) ==
    IF name = <<CH_v>> THEN [success |-> TRUE, text |-> <<CH_0 + 1, CH_0 + 2>>]
    ELSE [success |-> FALSE, text |-> <<>>]
set_string(d, name, value) ==
    IF name = <<CH_v>>
    THEN [success |-> TRUE, d |-> Call(d, "set_string", -1, <<name, value>>)]
    ELSE [success |-> FALSE, d |-> Call(d, "set_string", -1, <<name, value>>)]

(* ------------------------------------------------------------------ *)
(* respond                                                            *)
(* ------------------------------------------------------------------ *)
\* what a read past the end of a local array, or an unset local, may hold
STACK_BYTES == {0, 165}

\* The bytes process_bytes(response, len) sends.  len is snprintf's return
\* value, the length of the whole text, while response[] holds at most 63
\* characters and a NUL: a longer text sends the NUL and then len - 64 bytes
\* read past the end of response[].
SentBytes(full) ==
    IF Len(full) < RESPONSE_SIZE THEN {full}
    ELSE {Take(full, RESPONSE_SIZE - 1) \o <<CH_NUL>>
              \o Repeat(g, Len(full) - RESPONSE_SIZE) : g \in STACK_BYTES}

\* "*%u" of the XOR of the bytes sent, when include_checksum
ChecksumSuffix(include_checksum, sent) ==
    IF include_checksum THEN <<CH_STAR>> \o Dec(XorFold(sent)) ELSE <<>>

\* respond(output, include_checksum, fmt, args...), full being the text the
\* format and its arguments expand to
respond(d, include_checksum, full) ==
    {[d EXCEPT
        !.output = @ \o <<START_BYTE>> \o <<0>> \o sent
                     \o ChecksumSuffix(include_checksum, sent) \o <<CH_CR, NEWLINE>>,
        !.responses = Append(@, [kind |-> "text", text |-> sent])]
     : sent \in SentBytes(full)}

respondAll(ds, include_checksum, full) ==
    UNION {respond(d, include_checksum, full) : d \in ds}

RECURSIVE respondLines(_, _, _)
respondLines(ds, include_checksum, texts) ==
    IF texts = <<>> THEN ds
    ELSE respondLines(respondAll(ds, include_checksum, Head(texts)),
                      include_checksum, Tail(texts))

\* In a printf format a run of '%' characters is read in pairs, "%%" giving
\* one '%'; a '%' left over starts a conversion.
\* where the run of '%' that holds index i starts
PercentRunStart(fmt, i) ==
    CHOOSE a \in 1..i :
        /\ \A j \in a..i : fmt[j] = CH_PERCENT
        /\ (a = 1 \/ fmt[a - 1] # CH_PERCENT)

\* fmt[i] is the second '%' of a pair
PairEnd(fmt, i) ==
    fmt[i] = CH_PERCENT /\ (i - PercentRunStart(fmt, i)) % 2 = 1

\* fmt[i] is a '%' that starts a conversion
StartsConversion(fmt, i) ==
    /\ fmt[i] = CH_PERCENT
    /\ ~PairEnd(fmt, i)
    /\ (i = Len(fmt) \/ fmt[i + 1] # CH_PERCENT)

\* the index of the first conversion, Len(fmt) + 1 when there is none
FirstConversion(fmt) ==
    CHOOSE e \in 1..(Len(fmt) + 1) :
        /\ (e <= Len(fmt) => StartsConversion(fmt, e))
        /\ \A i \in 1..(e - 1) : ~StartsConversion(fmt, i)

\* the indices before e of the characters snprintf copies to the output
CopiedBefore(fmt, e) ==
    SelectSeq([i \in 1..(e - 1) |-> i],
              LAMBDA i : fmt[i] # CH_PERCENT \/ PairEnd(fmt, i))

\* the characters of fmt at the indices idx
CharsAt(fmt, idx) == [k \in 1..Len(idx) |-> fmt[idx[k]]]

\* the expansion up to the conversion at e (ub), or of all of fmt
FormatUpTo(fmt, e) ==
    [text |-> CharsAt(fmt, CopiedBefore(fmt, e)), ub |-> e <= Len(fmt)]

\* snprintf(response, 64, fmt) with NO arguments: characters are copied, "%%"
\* gives '%', and any other '%' starts a conversion that has no argument to
\* read (ub: undefined from there on)
FormatNoArgs(fmt) == FormatUpTo(fmt, FirstConversion(fmt))

\* what a conversion without an argument may expand to
UB_TEXTS == {<<>>, <<CH_0>>}

\* respond with the text f.text the format expanded to, f.ub telling that a
\* conversion was met
respondFormatted(d, include_checksum, f) ==
    IF ~f.ub THEN respond(d, include_checksum, f.text)
    ELSE UNION {respond(d, include_checksum, f.text \o g) : g \in UB_TEXTS}
         \cup {[d EXCEPT !.fault = TRUE]}

\* respond(output, include_checksum, data): the data (a C string) is the FORMAT.
\* A conversion in it reads an argument that was never passed: it may expand
\* to anything, or fault on a wild pointer.
respondFmt(d, include_checksum, data) ==
    respondFormatted(d, include_checksum, FormatNoArgs(CStr(data)))

respondFmtAll(ds, include_checksum, data) ==
    UNION {respondFmt(d, include_checksum, data) : d \in ds}

(* ------------------------------------------------------------------ *)
(* Binary codecs                                                      *)
(* ------------------------------------------------------------------ *)
constrain(in, min, max) ==
    IF in > max THEN max ELSE IF in < min THEN min ELSE in

\* (int16_t) of a uint16_t
ToInt16(u) == IF u >= 32768 THEN u - 65536 ELSE u
\* the uint16_t that holds an int16_t
ToUint16(x) == (x + 65536) % 65536

\* (msg[hi] << 8) | msg[lo] for C indices lo, lo + 1 (char is unsigned)
Word16(msg, lo) == msg[lo + 2] * 256 + msg[lo + 1]

\* DualChecksum without "checkSum ^= msg[4]"
DualChecksumSkipsLast(msg) ==
    Xor(Xor(Xor(Xor(0, msg[1]), msg[2]), msg[3]), msg[4])

\* checkSum ^= msg[0] ... msg[4]
DualChecksum(msg) ==
    Xor(Xor(Xor(Xor(Xor(0, msg[1]), msg[2]), msg[3]), msg[4]), msg[5])

\* parse_dual_current(msg, len, i0, i1): result 1 and the two values
\* (int16 / 100, in millionths), or -1 with i0, i1 left as they were
parse_dual_current(msg, len) ==
    IF len # 6 THEN [result |-> -1, i0 |-> 0, i1 |-> 0]
    ELSE IF DualChecksum(msg) = msg[6]
    THEN [result |-> 1,
          i0 |-> ToInt16(Word16(msg, 1)) * (MICRO \div DUAL_MULTIPLIER),
          i1 |-> ToInt16(Word16(msg, 3)) * (MICRO \div DUAL_MULTIPLIER)]
    ELSE [result |-> -1, i0 |-> 0, i1 |-> 0]

\* for (i = 0; i < len - 1; i++) checkSum ^= msg[i]
CoupledChecksum(msg, len) == XorFold(SubSeq(msg, 1, len - 1))

\* parse_coupled_command(msg, len, sp_theta, kp_theta, kd_theta, sp_gamma,
\* kp_gamma, kd_gamma): result 1 and the six values, or -1
parse_coupled_command(msg, len) ==
    LET none == [result |-> -1, sp_theta |-> 0, kp_theta |-> 0, kd_theta |-> 0,
                 sp_gamma |-> 0, kp_gamma |-> 0, kd_gamma |-> 0]
        pos(lo) == ToInt16(Word16(msg, lo)) * (MICRO \div POS_MULTIPLIER)
        gain(lo) == ToInt16(Word16(msg, lo)) * (MICRO \div GAIN_MULTIPLIER)
    IN  IF len # 14 THEN none
        ELSE IF CoupledChecksum(msg, len) = msg[14]
        THEN [result |-> 1,
              sp_theta |-> pos(1), kp_theta |-> gain(3), kd_theta |-> gain(5),
              sp_gamma |-> pos(7), kp_gamma |-> gain(9), kd_gamma |-> gain(11)]
        ELSE none

\* the two 16-bit values send_motor_positions computes from the encoder
\* estimates: <<theta_16, gamma_16>>
MotorAngles(d) ==
    LET alpha == constrain(encoder_to_rad(d.axes[0].pos_estimate_) + HALF_PI_MICRO,
                           -ANGLE_LIMIT * MICRO, ANGLE_LIMIT * MICRO)
        beta == constrain(encoder_to_rad(d.axes[1].pos_estimate_) - HALF_PI_MICRO,
                          -ANGLE_LIMIT * MICRO, ANGLE_LIMIT * MICRO)
        gamma_16 == TruncDiv(alpha - beta, 2 * (MICRO \div SEND_MULTIPLIER))
        theta_16 == TruncDiv(alpha + beta, 2 * (MICRO \div SEND_MULTIPLIER))
    IN  <<theta_16, gamma_16>>

\* FeedbackPayload with "uint8_t check_sum = 0": the tag is left out of the
\* checksum
FeedbackPayloadNoTag(theta_16, gamma_16) ==
    LET t == ToUint16(theta_16)
        g == ToUint16(gamma_16)
        check_sum == Xor(Xor(Xor(Xor(0, t % 256), t \div 256), g % 256), g \div 256)
    IN  <<CH_P, t % 256, t \div 256, g % 256, g \div 256, check_sum>>

\* the payload send_motor_positions writes after the start and length bytes
FeedbackPayload(theta_16, gamma_16) ==
    LET t == ToUint16(theta_16)
        g == ToUint16(gamma_16)
        check_sum == Xor(Xor(Xor(Xor(CH_P, t % 256), t \div 256), g % 256), g \div 256)
    IN  <<CH_P, t % 256, t \div 256, g % 256, g \div 256, check_sum>>

\* send_motor_positions(response_channel)
send_motor_positions(d) ==
    LET a == MotorAngles(d)
        payload == FeedbackPayload(a[1], a[2])
    IN  [d EXCEPT !.output = @ \o <<START_BYTE>> \o <<6>> \o payload,
                  !.responses = Append(@, [kind |-> "binary", text |-> payload])]

(* ------------------------------------------------------------------ *)
(* ASCII_protocol_process_line                                        *)
(* ------------------------------------------------------------------ *)
\* bool use_checksum = false
use_checksum == FALSE

InvalidMotor(d, motor_number) ==
    respond(d, use_checksum, MSG_INVALID_MOTOR \o Dec32(motor_number))

\* Each branch is written as the scan of the line (Cmd...) handing its result
\* sc to the branch's body.

\* Position without "else if (motor_number >= AXIS_COUNT)"
PositionNoAxisCheck(sc, d) ==
    IF sc.numscan < 2 THEN respond(d, use_checksum, MSG_INVALID_FORMAT)
    ELSE {watchdog_feed(
            set_pos_setpoint(d, sc.motor_number.lo, sc.vals[1],
                             IF sc.numscan < 3 THEN 0 ELSE sc.vals[2],
                             IF sc.numscan < 4 THEN 0 ELSE sc.vals[3]),
            sc.motor_number.lo)}

\* the body of the branch cmd[0] == 'p'
Position(sc, d) ==
    IF sc.numscan < 2 THEN respond(d, use_checksum, MSG_INVALID_FORMAT)
    ELSE IF Geq32(sc.motor_number, AXIS_COUNT) THEN InvalidMotor(d, sc.motor_number)
    ELSE LET vel_feed_forward == IF sc.numscan < 3 THEN 0 ELSE sc.vals[2]
             current_feed_forward == IF sc.numscan < 4 THEN 0 ELSE sc.vals[3]
         IN  {watchdog_feed(
                set_pos_setpoint(d, sc.motor_number.lo, sc.vals[1],
                                 vel_feed_forward, current_feed_forward),
                sc.motor_number.lo)}

\* cmd[0] == 'p': position control
CmdPosition(cmd, d) == Position(ScanCmd(cmd, 3), d)

\* SetLimits with the two "if (numscan >= ...)" taken as defaults: a limit
\* whose field is absent is set to 0
SetLimitsDefaultZero(sc, d) ==
    [d EXCEPT !.axes[sc.motor_number.lo] =
        [@ EXCEPT !.pos_setpoint_ = sc.vals[1],
                  !.vel_limit = IF sc.numscan >= 3 THEN sc.vals[2] ELSE 0,
                  !.current_lim = IF sc.numscan >= 4 THEN sc.vals[3] ELSE 0]]

\* axis->controller_.pos_setpoint_ = pos_setpoint; and the two optional limits
SetLimits(sc, d) ==
    [d EXCEPT !.axes[sc.motor_number.lo] =
        [@ EXCEPT !.pos_setpoint_ = sc.vals[1],
                  !.vel_limit = IF sc.numscan >= 3 THEN sc.vals[2] ELSE @,
                  !.current_lim = IF sc.numscan >= 4 THEN sc.vals[3] ELSE @]]

\* the body of the branch cmd[0] == 'q'
PositionLimits(sc, d) ==
    IF sc.numscan < 2 THEN respond(d, use_checksum, MSG_INVALID_FORMAT)
    ELSE IF Geq32(sc.motor_number, AXIS_COUNT) THEN InvalidMotor(d, sc.motor_number)
    ELSE {watchdog_feed(SetLimits(sc, d), sc.motor_number.lo)}

\* cmd[0] == 'q': position control with limits
CmdPositionLimits(cmd, d) == PositionLimits(ScanCmd(cmd, 3), d)

\* the body of the branch cmd[0] == 'v'
Velocity(sc, d) ==
    IF sc.numscan < 2 THEN respond(d, use_checksum, MSG_INVALID_FORMAT)
    ELSE IF Geq32(sc.motor_number, AXIS_COUNT) THEN InvalidMotor(d, sc.motor_number)
    ELSE LET current_feed_forward == IF sc.numscan < 3 THEN 0 ELSE sc.vals[2]
         IN  {watchdog_feed(
                set_vel_setpoint(d, sc.motor_number.lo, sc.vals[1], current_feed_forward),
                sc.motor_number.lo)}

\* cmd[0] == 'v': velocity control
CmdVelocity(cmd, d) == Velocity(ScanCmd(cmd, 2), d)

\* the body of the branch cmd[0] == 'c'
Current(sc, d) ==
    IF sc.numscan < 2 THEN respond(d, use_checksum, MSG_INVALID_FORMAT)
    ELSE IF Geq32(sc.motor_number, AXIS_COUNT) THEN InvalidMotor(d, sc.motor_number)
    ELSE {watchdog_feed(set_current_setpoint(d, sc.motor_number.lo, sc.vals[1]),
                        sc.motor_number.lo)}

\* cmd[0] == 'c': current control
CmdCurrent(cmd, d) == Current(ScanCmd(cmd, 1), d)

\* the body of the branch cmd[0] == 'P', r being parse_dual_current's result.
\* theta_sp /= MULTIPLIER also runs when the parse failed and the locals are
\* unset; nothing reads them on that path.
Dual(r, cmd, d) ==
    IF r.result # 1
    THEN respondFmtAll(respond(d, use_checksum, MSG_FAILED_DUAL), use_checksum, cmd)
    ELSE {send_motor_positions(
            set_coupled_setpoints(
                set_coupled_setpoints(d, 0, r.i0 \div COUPLED_SCALE, r.i1 \div COUPLED_SCALE),
                1, r.i0 \div COUPLED_SCALE, r.i1 \div COUPLED_SCALE))}

\* cmd[0] == 'P': coupled control
CmdDual(cmd, len, d) == Dual(parse_dual_current(cmd, len), cmd, d)

\* ApplyCoupled without the two calls on axes[1]
ApplyCoupledAxis0(r, d) ==
    set_coupled_gains(
        set_coupled_setpoints(d, 0, r.sp_theta, r.sp_gamma),
        0, r.kp_theta, r.kd_theta, r.kp_gamma, r.kd_gamma)

\* the four calls of the branch cmd[0] == 'S' that succeeded
ApplyCoupled(r, d) ==
    set_coupled_gains(
        set_coupled_setpoints(
            set_coupled_gains(
                set_coupled_setpoints(d, 0, r.sp_theta, r.sp_gamma),
                0, r.kp_theta, r.kd_theta, r.kp_gamma, r.kd_gamma),
            1, r.sp_theta, r.sp_gamma),
        1, r.kp_theta, r.kd_theta, r.kp_gamma, r.kd_gamma)

\* the body of the branch cmd[0] == 'S', r being parse_coupled_command's result
Coupled(r, cmd, d) ==
    IF r.result # 1
    THEN respondFmtAll(respond(d, use_checksum, MSG_FAILED_COUPLED), use_checksum, cmd)
    ELSE {send_motor_positions(ApplyCoupled(r, d))}

\* cmd[0] == 'S': coupled control with gains
CmdCoupled(cmd, len, d) == Coupled(parse_coupled_command(cmd, len), cmd, d)

\* the body of the branch cmd[0] == 't'
Trajectory(sc, d) ==
    IF sc.numscan < 2 THEN respond(d, use_checksum, MSG_INVALID_FORMAT)
    ELSE IF Geq32(sc.motor_number, AXIS_COUNT) THEN InvalidMotor(d, sc.motor_number)
    ELSE {watchdog_feed(move_to_pos(d, sc.motor_number.lo, sc.vals[1]),
                        sc.motor_number.lo)}

\* cmd[0] == 't': trapezoidal trajectory
CmdTrajectory(cmd, d) == Trajectory(ScanCmd(cmd, 1), d)

\* Feedback ending with axis->watchdog_feed() as the other branches do
FeedbackFeeds(sc, d) ==
    IF sc.numscan < 1 THEN respond(d, use_checksum, MSG_INVALID_FORMAT)
    ELSE IF Geq32(sc.motor_number, AXIS_COUNT) THEN InvalidMotor(d, sc.motor_number)
    ELSE {watchdog_feed(r, sc.motor_number.lo) :
            r \in respond(d, use_checksum,
                     FmtFloat(d.axes[sc.motor_number.lo].pos_estimate_) \o <<CH_SPACE>>
                         \o FmtFloat(d.axes[sc.motor_number.lo].vel_estimate_))}

\* the body of the branch cmd[0] == 'f'
Feedback(sc, d) ==
    IF sc.numscan < 1 THEN respond(d, use_checksum, MSG_INVALID_FORMAT)
    ELSE IF Geq32(sc.motor_number, AXIS_COUNT) THEN InvalidMotor(d, sc.motor_number)
    ELSE respond(d, use_checksum,
                 FmtFloat(d.axes[sc.motor_number.lo].pos_estimate_) \o <<CH_SPACE>>
                     \o FmtFloat(d.axes[sc.motor_number.lo].vel_estimate_))

\* cmd[0] == 'f': feedback
CmdFeedback(cmd, d) == Feedback(ScanCmd(cmd, 0), d)

\* cmd[0] == 'h': help
CmdHelp(d) == respondLines({d}, use_checksum, HELP_LINES)

\* cmd[0] == 'i': device info
CmdInfo(d) ==
    respondLines({d}, use_checksum,
        << MSG_HW_VERSION \o Dec(HW_VERSION_MAJOR) \o <<CH_DOT>> \o Dec(HW_VERSION_MINOR)
               \o <<CH_MINUS>> \o Dec(HW_VERSION_VOLTAGE) \o <<86>>,
           MSG_FW_VERSION \o Dec(FW_VERSION_MAJOR) \o <<CH_DOT>> \o Dec(FW_VERSION_MINOR)
               \o <<CH_DOT>> \o Dec(FW_VERSION_REVISION),
           MSG_SERIAL \o SERIAL_NUMBER_STR >>)

\* cmd[0] == 's': system
CmdSystem(d) == {save_configuration(d)}

RECURSIVE TokenEnd(_, _)
\* index after the run of non-white-space characters that starts at i
TokenEnd(s, i) ==
    IF i <= Len(s) /\ ~IsSpace(s[i]) THEN TokenEnd(s, i + 1) ELSE i

\* the token s[a..e-1]
StringValue(s, a, e) ==
    [ok |-> e > a, eof |-> a > Len(s), val |-> SubSeq(s, a, e - 1), next |-> e]

StringItem(s, a) == StringValue(s, a, Min(TokenEnd(s, a), a + MAX_LINE_LENGTH))

\* "%128s": white space is skipped, then up to 128 non-white-space characters
ScanString(s, i) == StringItem(s, SkipSpace(s, i))

\* endpoint->get_string(response, sizeof(response)) and the respond that follows
ReadEndpoint(g, d) ==
    IF ~g.success THEN respond(d, use_checksum, MSG_NOT_IMPLEMENTED)
    ELSE respondFmt(d, use_checksum, g.text)

\* Read without "if (!endpoint)": a name that is not in the tree is read
ReadSkipsLookup(name, d) ==
    IF ~name.ok THEN respond(d, use_checksum, MSG_INVALID_FORMAT)
    ELSE ReadEndpoint(get_string(name.val), d)

\* the body of the branch cmd[0] == 'r', name being the "%128s" scanned
Read(name, d) ==
    IF ~name.ok THEN respond(d, use_checksum, MSG_INVALID_FORMAT)
    ELSE IF ~get_by_name(name.val) THEN respond(d, use_checksum, MSG_INVALID_PROPERTY)
    ELSE ReadEndpoint(get_string(name.val), d)

\* cmd[0] == 'r': read property
CmdRead(cmd, d) == Read(ScanString(CStr(cmd), 2), d)

\* what value[] holds when sscanf assigned no second token: it was never set
UNSET_VALUES == {<<>>} \cup {<<g>> : g \in STACK_BYTES \ {CH_NUL}}

\* endpoint->set_string(value, sizeof(value)) and the respond that follows
WriteEndpoint(w) ==
    IF ~w.success THEN respond(w.d, use_checksum, MSG_NOT_IMPLEMENTED) ELSE {w.d}

\* the body of the branch cmd[0] == 'w', name and value being the two "%128s"
\* scanned: value is never checked, and is unset when its scan failed
Write(name, value, d) ==
    IF ~name.ok THEN respond(d, use_checksum, MSG_INVALID_FORMAT)
    ELSE IF ~get_by_name(name.val) THEN respond(d, use_checksum, MSG_INVALID_PROPERTY)
    ELSE UNION {WriteEndpoint(set_string(d, name.val, v))
                : v \in IF value.ok THEN {value.val} ELSE UNSET_VALUES}

WriteValue(s, name, d) ==
    Write(name,
          IF name.ok THEN ScanString(s, name.next)
          ELSE [ok |-> FALSE, eof |-> FALSE, val |-> <<>>, next |-> 0],
          d)

\* cmd[0] == 'w': write property
CmdWrite(cmd, d) == WriteValue(CStr(cmd), ScanString(CStr(cmd), 2), d)

\* Watchdog with "numscan < 0": a line whose axis did not parse passes
WatchdogNoFormatCheck(sc, d) ==
    IF sc.numscan < 0 THEN respond(d, use_checksum, MSG_INVALID_FORMAT)
    ELSE IF Geq32(sc.motor_number, AXIS_COUNT) THEN InvalidMotor(d, sc.motor_number)
    ELSE {watchdog_feed(d, sc.motor_number.lo)}

\* the body of the branch cmd[0] == 'u'
Watchdog(sc, d) ==
    IF sc.numscan < 1 THEN respond(d, use_checksum, MSG_INVALID_FORMAT)
    ELSE IF Geq32(sc.motor_number, AXIS_COUNT) THEN InvalidMotor(d, sc.motor_number)
    ELSE {watchdog_feed(d, sc.motor_number.lo)}

\* cmd[0] == 'u': update axis watchdog
CmdWatchdog(cmd, d) == Watchdog(ScanCmd(cmd, 0), d)

\* ASCII_protocol_process_line(buffer, len, response_channel): the devices it
\* can leave.  buffer holds the len bytes of the line; cmd is the local copy,
\* cut at MAX_LINE_LENGTH, whose terminating NUL is what cmd[0] reads when the
\* line is empty.
ASCII_protocol_process_line(buffer, d) ==
    LET len == Min(Len(buffer), MAX_LINE_LENGTH)
        cmd == SubSeq(buffer, 1, len)
        tag == IF len = 0 THEN CH_NUL ELSE cmd[1]
    IN  IF tag = CH_p THEN CmdPosition(cmd, d)
        ELSE IF tag = CH_q THEN CmdPositionLimits(cmd, d)
        ELSE IF tag = CH_v THEN CmdVelocity(cmd, d)
        ELSE IF tag = CH_c THEN CmdCurrent(cmd, d)
        ELSE IF tag = CH_P THEN CmdDual(cmd, len, d)
        ELSE IF tag = CH_S THEN CmdCoupled(cmd, len, d)
        ELSE IF tag = CH_t THEN CmdTrajectory(cmd, d)
        ELSE IF tag = CH_f THEN CmdFeedback(cmd, d)
        ELSE IF tag = CH_h THEN CmdHelp(d)
        ELSE IF tag = CH_i THEN CmdInfo(d)
        ELSE IF tag = CH_s THEN CmdSystem(d)
        ELSE IF tag = CH_r THEN CmdRead(cmd, d)
        ELSE IF tag = CH_w THEN CmdWrite(cmd, d)
        ELSE IF tag = CH_u THEN CmdWatchdog(cmd, d)
        ELSE IF tag # CH_NUL THEN respond(d, use_checksum, MSG_UNKNOWN)
        ELSE {d}

(* ------------------------------------------------------------------ *)
(* ASCII_protocol_parse_stream                                        *)
(*                                                                    *)
(* An assembler value m holds the function's statics (rx_state,       *)
(* parse_buffer, parse_buffer_idx, payload_length), the device dev,   *)
(* the lines given to the dispatcher (lines) and whether a byte was   *)
(* stored outside parse_buffer (oob).  parse_buffer is the sequence   *)
(* of the bytes stored so far; the rest of the array is still zero.   *)
(* ------------------------------------------------------------------ *)
\* the statics that may lie in the 12 bytes after parse_buffer: three words
STATICS_WINDOW == 12

\* parse_buffer[i] = c for a C index i < MAX_LINE_LENGTH
StoreAt(buf, i, c) ==
    IF i < Len(buf) THEN [buf EXCEPT ![i + 1] = c]
    ELSE buf \o Repeat(0, i - Len(buf)) \o <<c>>

\* the first n bytes of parse_buffer, as process_line copies them
LineOf(buf, n) ==
    [k \in 1..Min(n, MAX_LINE_LENGTH) |-> IF k <= Len(buf) THEN buf[k] ELSE 0]

RECURSIVE Pow256(_)
Pow256(k) == IF k <= 0 THEN 1 ELSE 256 * Pow256(k - 1)

\* the word v with its byte k (0 the lowest) replaced by c
SetByte(v, k, c) ==
    v - ((v \div Pow256(k)) % 256) * Pow256(k) + c * Pow256(k)

\* parse_buffer[parse_buffer_idx++] = c.  There is no bounds check: with
\* parse_buffer_idx >= MAX_LINE_LENGTH the byte lands after the array, on
\* whatever the linker put there.  It may be one of the other statics of this
\* function (its byte at that offset takes the value c) or something else.
StoreByte(m, c) ==
    LET i == m.parse_buffer_idx
        off == i - MAX_LINE_LENGTH
        k == off % 4
        next == [m EXCEPT !.parse_buffer_idx = i + 1]
    IN  IF i < MAX_LINE_LENGTH
        THEN {[next EXCEPT !.parse_buffer = StoreAt(m.parse_buffer, i, c)]}
        ELSE LET wild == [next EXCEPT !.oob = TRUE]
             IN  {wild} \cup
                 (IF off < STATICS_WINDOW
                  THEN {[wild EXCEPT !.parse_buffer_idx = SetByte(i + 1, k, c)],
                        [wild EXCEPT !.payload_length = SetByte(m.payload_length, k, c)],
                        [wild EXCEPT !.rx_state = SetByte(m.rx_state, k, c)]}
                  ELSE {})

\* Dispatch without "parse_buffer_idx = 0"
DispatchKeepIdx(m) ==
    {[m EXCEPT !.dev = d,
               !.lines = Append(@, LineOf(m.parse_buffer, m.parse_buffer_idx)),
               !.rx_state = IF d.fault THEN @ ELSE IDLING,
               !.payload_length = IF d.fault THEN @ ELSE 0]
     : d \in ASCII_protocol_process_line(
                 LineOf(m.parse_buffer, m.parse_buffer_idx), m.dev)}

\* ASCII_protocol_process_line(parse_buffer, parse_buffer_idx, response_channel);
\* rx_state = IDLING; parse_buffer_idx = 0; payload_length = 0;
Dispatch(m) ==
    LET line == LineOf(m.parse_buffer, m.parse_buffer_idx)
    IN  {[m EXCEPT !.dev = d,
                   !.lines = Append(@, line),
                   !.rx_state = IF d.fault THEN @ ELSE IDLING,
                   !.parse_buffer_idx = IF d.fault THEN @ ELSE 0,
                   !.payload_length = IF d.fault THEN @ ELSE 0]
         : d \in ASCII_protocol_process_line(line, m.dev)}

\* case IDLING
RxIdling(m, c) ==
    IF c = START_BYTE THEN {[m EXCEPT !.rx_state = READ_LEN]} ELSE {m}

\* case READ_LEN with "payload_length > MAX_LINE_LENGTH"
RxReadLenOffByOne(m, c) ==
    IF c > MAX_LINE_LENGTH THEN {[m EXCEPT !.payload_length = c, !.rx_state = IDLING]}
    ELSE IF c = 0
    THEN {[m EXCEPT !.payload_length = c, !.rx_state = READ_PAYLOAD_UNTIL_NL]}
    ELSE {[m EXCEPT !.payload_length = c, !.rx_state = READ_PAYLOAD]}

\* case READ_LEN
RxReadLen(m, c) ==
    LET m1 == [m EXCEPT !.payload_length = c]
    IN  IF c >= MAX_LINE_LENGTH THEN {[m1 EXCEPT !.rx_state = IDLING]}
        ELSE IF c = 0 THEN {[m1 EXCEPT !.rx_state = READ_PAYLOAD_UNTIL_NL]}
        ELSE {[m1 EXCEPT !.rx_state = READ_PAYLOAD]}

\* case READ_PAYLOAD_UNTIL_NL
RxReadUntilNl(m, c) ==
    UNION {IF c = NEWLINE THEN Dispatch(m1) ELSE {m1} : m1 \in StoreByte(m, c)}

\* case READ_PAYLOAD with the newline test of READ_PAYLOAD_UNTIL_NL added
RxReadPayloadEndsAtNewline(m, c) ==
    UNION {IF m1.parse_buffer_idx = m1.payload_length \/ c = NEWLINE
           THEN Dispatch(m1) ELSE {m1}
           : m1 \in StoreByte(m, c)}

\* case READ_PAYLOAD
RxReadPayload(m, c) ==
    UNION {IF m1.parse_buffer_idx = m1.payload_length THEN Dispatch(m1) ELSE {m1}
           : m1 \in StoreByte(m, c)}

\* one turn of the while loop: switch (rx_state) on the byte c.  A faulted
\* processor runs nothing; an rx_state that is none of the four cases (only a
\* wild store produces one) matches no case.
RxByte(m, c) ==
    IF m.dev.fault THEN {m}
    ELSE IF m.rx_state = IDLING THEN RxIdling(m, c)
    ELSE IF m.rx_state = READ_LEN THEN RxReadLen(m, c)
    ELSE IF m.rx_state = READ_PAYLOAD_UNTIL_NL THEN RxReadUntilNl(m, c)
    ELSE IF m.rx_state = READ_PAYLOAD THEN RxReadPayload(m, c)
    ELSE {m}

RECURSIVE RxRange(_, _, _, _)
\* the turns of the while loop for the bytes buffer[lo..hi], from any of the
\* assembler values ms: those for the first half of the range, then the rest
RxRange(ms, buffer, lo, hi) ==
    IF ms = {} \/ lo > hi THEN ms
    ELSE IF lo = hi THEN UNION {RxByte(m, buffer[lo]) : m \in ms}
    ELSE RxRange(RxRange(ms, buffer, lo, (lo + hi) \div 2),
                 buffer, ((lo + hi) \div 2) + 1, hi)

\* ASCII_protocol_parse_stream with rx_state, parse_buffer_idx and
\* payload_length declared without "static": each call starts from their
\* initializers
ParseStreamFreshState(m, buffer) ==
    RxRange({[m EXCEPT !.rx_state = IDLING, !.parse_buffer_idx = 0,
                       !.payload_length = 0]},
            buffer, 1, Len(buffer))

\* ASCII_protocol_parse_stream(buffer, len, response_channel): the assembler
\* values one call can leave
ASCII_protocol_parse_stream(m, buffer) == RxRange({m}, buffer, 1, Len(buffer))

(* ------------------------------------------------------------------ *)
(* State                                                              *)
(* ------------------------------------------------------------------ *)
VARIABLES
    rx_state,           \* static RXState rx_state
    parse_buffer,       \* static uint8_t parse_buffer[MAX_LINE_LENGTH]
    parse_buffer_idx,   \* static uint32_t parse_buffer_idx
    payload_length,     \* static size_t payload_length
    axes,               \* Axis* axes[AXIS_COUNT]: the fields this file touches
    calls,              \* collaborator calls made by the latest handler call
    output,             \* bytes the latest handler call gave to the output sink
    responses,          \* respond()/send_motor_positions() calls of the latest call
    lines,              \* lines the latest handler call gave to the dispatcher
    fault,              \* the processor stopped on a wild access
    oob,                \* a byte was stored outside parse_buffer
    consumed,           \* history: every byte given to parse_stream so far
    dispatched,         \* history: every line the assembler has dispatched
    pending,            \* frames still to be delivered (SpecFrames)
    frames,             \* the payloads of the frames chosen (SpecFrames)
    ndispatch,          \* number of direct dispatcher calls (SpecDispatch)
    msg,                \* the binary sub-message under test (SpecCodec)
    decoded,            \* result of decoding msg (SpecCodec)
    feedback            \* the two values of the feedback frame written (SpecFeedback)

vars == <<rx_state, parse_buffer, parse_buffer_idx, payload_length, axes, calls,
          output, responses, lines, fault, oob, consumed, dispatched, pending,
          frames, ndispatch, msg, decoded, feedback>>

envVars == <<pending, frames, ndispatch, msg, decoded, feedback>>

\* the device at the start of a handler call: the per-call logs are empty
Dev == [axes |-> axes, calls |-> <<>>, output |-> <<>>, responses |-> <<>>,
        fault |-> fault]

\* the assembler at the start of a call
Asm == [rx_state |-> rx_state, parse_buffer |-> parse_buffer,
        parse_buffer_idx |-> parse_buffer_idx, payload_length |-> payload_length,
        dev |-> Dev, lines |-> <<>>, oob |-> oob]

SetDev(d) ==
    /\ axes' = d.axes
    /\ calls' = d.calls
    /\ output' = d.output
    /\ responses' = d.responses
    /\ fault' = d.fault

SetAsm(m) ==
    /\ rx_state' = m.rx_state
    /\ parse_buffer' = m.parse_buffer
    /\ parse_buffer_idx' = m.parse_buffer_idx
    /\ payload_length' = m.payload_length
    /\ lines' = m.lines
    /\ oob' = m.oob
    /\ SetDev(m.dev)

\* the state after the statics' initializers have run, with the encoder
\* estimates est = <<pos0, vel0, pos1, vel1>>
InitWith(est) ==
    /\ rx_state = IDLING
    /\ parse_buffer = <<>>
    /\ parse_buffer_idx = 0
    /\ payload_length = 0
    /\ axes = [a \in AxisIdx |->
                 IF a = 0 THEN NewAxis(est[1], est[2]) ELSE NewAxis(est[3], est[4])]
    /\ calls = <<>>
    /\ output = <<>>
    /\ responses = <<>>
    /\ lines = <<>>
    /\ fault = FALSE
    /\ oob = FALSE
    /\ consumed = <<>>
    /\ dispatched = <<>>
    /\ ndispatch = 0
    /\ msg = <<>>
    /\ decoded = [fn |-> "none", result |-> 0, values |-> <<>>]
    /\ feedback = <<>>

\* one call ASCII_protocol_parse_stream(chunk, Len(chunk), response_channel)
ParseStream(chunk) ==
    /\ ~fault
    /\ \E m \in ASCII_protocol_parse_stream(Asm, chunk) :
          /\ SetAsm(m)
          /\ dispatched' = dispatched \o m.lines
    /\ consumed' = consumed \o chunk

(* ------------------------------------------------------------------ *)
(* Spec: any bytes, in chunks, up to MaxBytes in all                  *)
(* ------------------------------------------------------------------ *)
\* start byte, newline-mode length, newline (also the length 10), the length
\* 2, two rejected lengths, and the characters of the line "u0"
STREAM_BYTES == {START_BYTE, 0, NEWLINE, 2, 128, 255, CH_u, CH_0}

RECURSIVE SeqsUpTo(_, _)
\* the sequences over S of length 1..n
SeqsUpTo(S, n) ==
    IF n <= 0 THEN {}
    ELSE LET shorter == SeqsUpTo(S, n - 1)
         IN  {<<b>> : b \in S} \cup shorter
                 \cup {s \o <<b>> : s \in shorter, b \in S}

Chunks == SeqsUpTo(STREAM_BYTES, MaxChunk)

Init ==
    /\ InitWith(<<0, 0, 0, 0>>)
    /\ pending = <<>>
    /\ frames = <<>>

Feed ==
    \E chunk \in Chunks :
        /\ Len(consumed) + Len(chunk) <= MaxBytes
        /\ ParseStream(chunk)
        /\ UNCHANGED envVars

Next == Feed

Spec == Init /\ [][Next]_vars

(* ------------------------------------------------------------------ *)
(* SpecFrames: a stream of valid length-prefixed frames, delivered in *)
(* chunks of any size                                                 *)
(* ------------------------------------------------------------------ *)
\* payloads of 1..127 bytes: a command, the framing bytes themselves (start
\* byte, newline, NUL), bytes above 127, and the longest payload there is
FRAME_PAYLOADS ==
    {<<CH_u, CH_0>>, <<START_BYTE>>, <<NEWLINE, 0>>, <<255, 128, START_BYTE>>,
     Repeat(CH_u, MAX_LINE_LENGTH - 1)}

\* start byte, length byte, payload
Frame(payload) == <<START_BYTE, Len(payload)>> \o payload

InitFrames ==
    /\ InitWith(<<0, 0, 0, 0>>)
    /\ frames \in SeqsUpTo(FRAME_PAYLOADS, MaxFrames)
    /\ pending = Flatten([i \in 1..Len(frames) |-> Frame(frames[i])])

\* the sizes the next chunk of the pending stream may have
DeliverSizes == (1..Min(MaxChunk, Len(pending))) \cup {Len(pending)}

\* the caller hands the next n pending bytes to ASCII_protocol_parse_stream
Deliver ==
    /\ pending # <<>>
    /\ \E n \in DeliverSizes :
          /\ ParseStream(Take(pending, n))
          /\ pending' = Drop(pending, n)
    /\ UNCHANGED <<frames, ndispatch, msg, decoded, feedback>>

NextFrames == Deliver

SpecFrames == InitFrames /\ [][NextFrames]_vars

(* ------------------------------------------------------------------ *)
(* SpecFlood: a newline-terminated line that does not end before the  *)
(* line buffer is full                                                *)
(* ------------------------------------------------------------------ *)
FLOOD_BYTES == {0, CH_u}

\* what follows the flood: the newline, then a start byte
FLOOD_TAILS == {<<NEWLINE>>, <<NEWLINE, START_BYTE>>}

InitFlood ==
    /\ InitWith(<<0, 0, 0, 0>>)
    /\ frames = <<>>
    /\ pending \in
         {<<START_BYTE, 0>> \o Repeat(f, n) \o t :
            f \in FLOOD_BYTES,
            n \in (MAX_LINE_LENGTH - 1)..(MAX_LINE_LENGTH + MaxOverrun),
            t \in FLOOD_TAILS}

NextFlood == Deliver

SpecFlood == InitFlood /\ [][NextFlood]_vars

(* ------------------------------------------------------------------ *)
(* SpecDispatch: lines given to ASCII_protocol_process_line           *)
(* ------------------------------------------------------------------ *)
\* encoder estimates <<pos0, vel0, pos1, vel1>> in millionths: at rest, in
\* motion, and beyond the +-30 rad send_motor_positions constrains to
ESTIMATES ==
    {<<0, 0, 0, 0>>,
     <<1500000, -250000, -7000000, 42>>,
     <<400000000, 0, -400000000, 0>>}

SINGLE_AXIS_TAGS == {CH_p, CH_q, CH_v, CH_c, CH_t, CH_f, CH_u}

\* what follows the tag of a single-axis command:
\* "", " 0", " 1", " 9", " 0 1.5", " 1 -2 3", " 0 1 2.25 3", " 9 1.5", " -1 1", " x", " 0 x", "0 7", " 2 1 2 3", " 1 4\n"
ARG_TAILS ==
    {<<>>,
     <<32, 48>>,
     <<32, 49>>,
     <<32, 57>>,
     <<32, 48, 32, 49, 46, 53>>,
     <<32, 49, 32, 45, 50, 32, 51>>,
     <<32, 48, 32, 49, 32, 50, 46, 50, 53, 32, 51>>,
     <<32, 57, 32, 49, 46, 53>>,
     <<32, 45, 49, 32, 49>>,
     <<32, 120>>,
     <<32, 48, 32, 120>>,
     <<48, 32, 55>>,
     <<32, 50, 32, 49, 32, 50, 32, 51>>,
     <<32, 49, 32, 52, 10>>}

\* body \o its XOR checksum
WithChecksum(body) == body \o <<XorFold(body)>>

\* the first five bytes of 'P' lines: zeros, small values, a negative value,
\* and values that are the characters '%' and newline
DUAL_BODIES ==
    {<<CH_P, 0, 0, 0, 0>>, <<CH_P, 1, 2, 3, 4>>, <<CH_P, 255, 255, 0, 128>>,
     <<CH_P, CH_PERCENT, CH_PERCENT, NEWLINE, 0>>}

\* 'P' lines that do not decode: a wrong checksum, five bytes, seven bytes,
\* the tag alone, a NUL in the line, a '%' in the line, "P%%", 71 bytes
BAD_DUAL_LINES ==
    {<<CH_P, 1, 2, 3, 4, 5>>, <<CH_P, 1, 2, 3, 4>>, <<CH_P, 1, 2, 3, 4, 84, 7>>,
     <<CH_P>>, <<CH_P, 0, 1, 2, 3>>, <<CH_P, CH_PERCENT, 115, 1, 2, 3>>,
     <<CH_P, CH_PERCENT, CH_PERCENT, 1>>, <<CH_P>> \o Repeat(65, 70)}

\* the first thirteen bytes of 'S' lines
COUPLED_BODIES ==
    {<<CH_S>> \o Repeat(0, 12),
     <<CH_S, 1, 2, 3, 4, 5, 6, 7, 8, 9, 10, 11, 12>>,
     <<CH_S, 255, 255, 0, 128, 16, 39, 232, 3, 100, 0, 156, 255>>}

\* 'S' lines that do not decode: a wrong checksum, thirteen bytes, a NUL in
\* the line, a '%' in the line
BAD_COUPLED_LINES ==
    {<<CH_S, 1, 2, 3, 4, 5, 6, 7, 8, 9, 10, 11, 12, 13>>,
     <<CH_S, 1, 2, 3, 4, 5, 6, 7, 8, 9, 10, 11, 12>>,
     <<CH_S, 0, 1>>, <<CH_S, CH_PERCENT, 100>>}

\* "h", "i", "s", "ss", "r v", "r c", "r x", "r", "w v 1", "w v", "w c 1",
\* "w x 1", "w", "z", "\n", the empty line, and a line that starts with NUL
OTHER_LINES ==
    {<<104>>,
     <<105>>,
     <<115>>,
     <<115, 115>>,
     <<114, 32, 118>>,
     <<114, 32, 99>>,
     <<114, 32, 120>>,
     <<114>>,
     <<119, 32, 118, 32, 49>>,
     <<119, 32, 118>>,
     <<119, 32, 99, 32, 49>>,
     <<119, 32, 120, 32, 49>>,
     <<119>>,
     <<122>>,
     <<10>>,
     <<>>, <<CH_NUL, CH_p>>}

\* lines with the tag 'C' of the help text and of parse_dual_current's
\* comment: two 6-byte messages whose checksum verifies, one whose checksum
\* does not, and the text form "C 1 2"
DUAL_C_LINES ==
    {WithChecksum(<<CH_C, 0, 0, 0, 0>>), WithChecksum(<<CH_C, 1, 2, 3, 4>>),
     <<CH_C, 1, 2, 3, 4, 5>>, <<CH_C, 32, 49, 32, 50>>}

LINES ==
    {<<tag>> \o tail : tag \in SINGLE_AXIS_TAGS, tail \in ARG_TAILS}
        \cup {WithChecksum(body) : body \in DUAL_BODIES} \cup BAD_DUAL_LINES
        \cup {WithChecksum(body) : body \in COUPLED_BODIES} \cup BAD_COUPLED_LINES
        \cup OTHER_LINES \cup DUAL_C_LINES

InitDispatch ==
    /\ \E est \in ESTIMATES : InitWith(est)
    /\ pending = <<>>
    /\ frames = <<>>

\* one call ASCII_protocol_process_line(line, Len(line), response_channel)
ProcessLine ==
    /\ ~fault
    /\ ndispatch < MaxDispatch
    /\ \E line \in LINES :
          /\ \E d \in ASCII_protocol_process_line(line, Dev) : SetDev(d)
          /\ lines' = <<line>>
          /\ dispatched' = Append(dispatched, line)
    /\ ndispatch' = ndispatch + 1
    /\ UNCHANGED <<rx_state, parse_buffer, parse_buffer_idx, payload_length, oob,
                   consumed, pending, frames, msg, decoded, feedback>>

NextDispatch == ProcessLine

SpecDispatch == InitDispatch /\ [][NextDispatch]_vars

(* ------------------------------------------------------------------ *)
(* Properties of the assembler                                        *)
(* ------------------------------------------------------------------ *)
RECURSIVE FramesWithin(_, _, _)
\* how many of the frames fs[i..] lie whole within the next n bytes, plus i - 1
FramesWithin(fs, i, n) ==
    IF i > Len(fs) \/ n < Len(fs[i]) + 2 THEN i - 1
    ELSE FramesWithin(fs, i + 1, n - (Len(fs[i]) + 2))

\* C1: however a stream of valid length-prefixed frames is cut into calls,
\* the dispatcher has been called once for each frame received whole so far,
\* and for no other, in the order of the frames, each time with exactly the
\* payload bytes of that frame.
C1_OneDispatchPerFrame ==
    dispatched = Take(frames, FramesWithin(frames, 1, Len(consumed)))

\* two frames, the first with the longest payload, all delivered, the last
\* call having completed only the second
C1_Witness ==
    /\ pending = <<>>
    /\ Len(frames) = 2
    /\ Len(frames[1]) = MAX_LINE_LENGTH - 1
    /\ dispatched = frames
    /\ Len(lines) = 1

\* C2: parse_buffer_idx never exceeds MAX_LINE_LENGTH and no byte is stored
\* outside parse_buffer, whatever bytes arrive, also when a newline-terminated
\* line gets no newline for 128 bytes or more.
C2_FillWithinCapacity == parse_buffer_idx <= MAX_LINE_LENGTH /\ ~oob

\* C3: a length byte of 128..255 read in READ_LEN puts the assembler back in
\* IDLING, calls no dispatcher and stores nothing in the line buffer.
C3_LengthRejected ==
    [][(/\ rx_state = READ_LEN
        /\ Len(consumed') = Len(consumed) + 1
        /\ consumed'[Len(consumed')] >= MAX_LINE_LENGTH)
       => (/\ rx_state' = IDLING
           /\ lines' = <<>>
           /\ dispatched' = dispatched
           /\ parse_buffer' = parse_buffer
           /\ parse_buffer_idx' = parse_buffer_idx)]_vars

\* a start byte, then the length byte 128: idle again, nothing dispatched
C3_Witness ==
    /\ consumed = <<START_BYTE, MAX_LINE_LENGTH>>
    /\ rx_state = IDLING
    /\ dispatched = <<>>
    /\ parse_buffer_idx = 0

\* C4: the byte that makes the assembler call the dispatcher, and the byte
\* that is a rejected length, each leave rx_state IDLING and parse_buffer_idx
\* 0; and parse_buffer_idx is 0 whenever rx_state is IDLING or READ_LEN.
C4_ReadyForNextLine ==
    [][/\ (rx_state' \in {IDLING, READ_LEN} => parse_buffer_idx' = 0)
       /\ (/\ Len(consumed') = Len(consumed) + 1
           /\ \/ lines' # <<>>
              \/ rx_state = READ_LEN /\ consumed'[Len(consumed')] >= MAX_LINE_LENGTH)
          => (rx_state' = IDLING /\ parse_buffer_idx' = 0)]_vars

\* the assembler after construction, with the device Spec starts from
InitialAsm ==
    [rx_state |-> IDLING, parse_buffer |-> <<>>, parse_buffer_idx |-> 0,
     payload_length |-> 0,
     dev |-> [axes |-> [a \in AxisIdx |-> NewAxis(0, 0)], calls |-> <<>>,
              output |-> <<>>, responses |-> <<>>, fault |-> FALSE],
     lines |-> <<>>, oob |-> FALSE]

\* what an assembler value m holds of: framing state, fill length, remaining
\* length, line buffer, the lines dispatched, the axes
Outcome(m) ==
    <<m.rx_state, m.parse_buffer_idx, m.payload_length, m.parse_buffer,
      m.lines, m.dev.axes>>

\* C16: however the bytes consumed so far were cut into calls, the lines
\* dispatched (number, order, contents) and the assembler's state are those
\* of one call that is given all these bytes at once.
C16_ChunkingIrrelevant ==
    <<rx_state, parse_buffer_idx, payload_length, parse_buffer, dispatched, axes>>
        \in {Outcome(m) : m \in ASCII_protocol_parse_stream(InitialAsm, consumed)}

\* the frame 01 02 'u' '0' and a start byte, which took three calls or more:
\* the line was dispatched once and the next frame has begun
C16_Witness ==
    /\ consumed = <<START_BYTE, 2, CH_u, CH_0, START_BYTE>>
    /\ dispatched = <<<<CH_u, CH_0>>>>
    /\ rx_state = READ_LEN

\* the index of the first newline after the length byte of the stream s, 0
\* when there is none
FirstNewline(s) ==
    IF \E i \in 3..Len(s) : s[i] = NEWLINE
    THEN CHOOSE i \in 3..Len(s) :
            s[i] = NEWLINE /\ \A j \in 3..(i - 1) : s[j] # NEWLINE
    ELSE 0

\* C17: after a start byte and the length byte 0, the dispatcher is called
\* once, at the first newline, with all the bytes that followed the length
\* byte up to and including that newline, and not before.
C17_LineUpToNewline ==
    (Len(consumed) >= 2 /\ consumed[1] = START_BYTE /\ consumed[2] = 0)
        => dispatched =
             IF FirstNewline(consumed) = 0 THEN <<>>
             ELSE <<SubSeq(consumed, 3, FirstNewline(consumed))>>

RECURSIVE FramesLength(_, _)
\* the number of stream bytes the frames fs[1..k] take
FramesLength(fs, k) ==
    IF k = 0 THEN 0 ELSE FramesLength(fs, k - 1) + Len(fs[k]) + 2

\* the number of bytes received of the frame that is not yet complete
Received == Len(consumed) - FramesLength(frames, FramesWithin(frames, 1, Len(consumed)))

\* the payload of the frame that is not yet complete
Incoming == frames[FramesWithin(frames, 1, Len(consumed)) + 1]

\* C18: once the start and length bytes of a frame are in, the assembler is
\* in READ_PAYLOAD until the payload is complete, whatever the payload bytes
\* are (start bytes and newlines included): each is appended to the line
\* buffer, and the dispatcher is called only for whole payloads, with the N
\* bytes of each unaltered.
C18_FixedPayloadIsData ==
    /\ (Received >= 2) <=> (rx_state = READ_PAYLOAD)
    /\ rx_state = READ_PAYLOAD
          => /\ payload_length = Len(Incoming)
             /\ parse_buffer_idx = Received - 2
             /\ parse_buffer_idx < payload_length
             /\ LineOf(parse_buffer, parse_buffer_idx) = Take(Incoming, parse_buffer_idx)
    /\ Len(dispatched) = FramesWithin(frames, 1, Len(consumed))
    /\ \A j \in 1..Len(dispatched) : dispatched[j] = frames[j]

\* after the frame with payload FF 80 01 was dispatched, the newline of the
\* payload 0A 00 is in the line buffer and the frame is still being read
C18_Witness ==
    /\ rx_state = READ_PAYLOAD
    /\ parse_buffer_idx = 1
    /\ parse_buffer[1] = NEWLINE
    /\ dispatched = <<<<255, 128, START_BYTE>>>>

\* the bytes the step gave to ASCII_protocol_parse_stream
StepBytes == SubSeq(consumed', Len(consumed) + 1, Len(consumed'))

\* C20: in READ_PAYLOAD with length N (1..127) and fewer than N bytes
\* stored, each further byte is either the Nth, and then the dispatcher is
\* called once and the assembler is back in IDLING, or it leaves one byte
\* fewer to wait for; READ_PAYLOAD_UNTIL_NL is left only by a call that was
\* given a newline.
C20_FrameCompletes ==
    [][/\ (rx_state = READ_PAYLOAD /\ Len(StepBytes) = 1)
          => /\ payload_length \in 1..(MAX_LINE_LENGTH - 1)
             /\ parse_buffer_idx < payload_length
             /\ IF parse_buffer_idx + 1 = payload_length
                THEN rx_state' = IDLING /\ Len(lines') = 1
                ELSE /\ rx_state' = READ_PAYLOAD
                     /\ parse_buffer_idx' = parse_buffer_idx + 1
                     /\ payload_length' = payload_length
                     /\ lines' = <<>>
       /\ (rx_state = READ_PAYLOAD_UNTIL_NL /\ rx_state' # READ_PAYLOAD_UNTIL_NL)
          => \E i \in 1..Len(StepBytes) : StepBytes[i] = NEWLINE]_vars

(* ------------------------------------------------------------------ *)
(* Properties of the dispatcher                                       *)
(* ------------------------------------------------------------------ *)
\* cmd[0] of a line
Tag(line) == IF line = <<>> THEN CH_NUL ELSE line[1]

\* the number of "%f" conversions in the sscanf format of a single-axis tag
FloatFields(tag) ==
    IF tag \in {CH_p, CH_q} THEN 3
    ELSE IF tag = CH_v THEN 2
    ELSE IF tag \in {CH_c, CH_t} THEN 1
    ELSE 0

\* the number of conversions the branch of a single-axis tag asks for
RequiredFields(tag) == IF tag \in {CH_f, CH_u} THEN 1 ELSE 2

\* what the sscanf of the line's branch finds in it
Scanned(line) == ScanCmd(line, FloatFields(Tag(line)))

\* the line's axis field parsed, to a value outside [0, AXIS_COUNT)
AxisOutOfRange(line) ==
    /\ Tag(line) \in SINGLE_AXIS_TAGS
    /\ Scanned(line).numscan >= 1
    /\ Geq32(Scanned(line).motor_number, AXIS_COUNT)

\* the line has too few numeric tokens for its tag
TooFewFields(line) ==
    /\ Tag(line) \in SINGLE_AXIS_TAGS
    /\ Scanned(line).numscan < RequiredFields(Tag(line))

\* the line is a single-axis command that is carried out
Successful(line) ==
    /\ Tag(line) \in SINGLE_AXIS_TAGS
    /\ Scanned(line).numscan >= RequiredFields(Tag(line))
    /\ ~Geq32(Scanned(line).motor_number, AXIS_COUNT)

TextResponse(text) == [kind |-> "text", text |-> text]

\* the number of axis->watchdog_feed() calls on axis a among cs
FeedCount(cs, a) ==
    Cardinality({k \in 1..Len(cs) : cs[k].fn = "watchdog_feed" /\ cs[k].axis = a})

\* the step is a call of the dispatcher (with the line lines'[1])
DispatchStep == ndispatch' = ndispatch + 1

\* the step touched no axis
NoAction == calls' = <<>> /\ axes' = axes

\* C5 as stated: a single-axis command whose axis field parses to a value
\* outside [0, AXIS_COUNT) is answered "invalid motor N" and acts on no axis,
\* whether or not the other numeric fields are there.
C5_AlwaysInvalidMotor ==
    [][(DispatchStep /\ AxisOutOfRange(lines'[1]))
       => (/\ responses' = <<TextResponse(
                  MSG_INVALID_MOTOR \o Dec32(Scanned(lines'[1]).motor_number))>>
           /\ NoAction)]_vars

\* C5 as amended: a single-axis command whose axis field parses to a value
\* outside [0, AXIS_COUNT) acts on no axis and gets one response: "invalid
\* motor N" when the line has the numeric tokens its tag requires (whatever
\* the optional ones are), "invalid command format" when it has not.
C5_InvalidMotorAfterFormat ==
    [][(DispatchStep /\ AxisOutOfRange(lines'[1]))
       => (/\ responses' =
                IF TooFewFields(lines'[1])
                THEN <<TextResponse(MSG_INVALID_FORMAT)>>
                ELSE <<TextResponse(
                         MSG_INVALID_MOTOR \o Dec32(Scanned(lines'[1]).motor_number))>>
           /\ NoAction)]_vars

\* "p 9 1.5" was answered "invalid motor 9" and nothing was done
C5_Witness ==
    /\ ndispatch > 0
    /\ lines = <<<<CH_p, CH_SPACE, CH_9, CH_SPACE, 49, CH_DOT, 53>>>>
    /\ responses = <<TextResponse(MSG_INVALID_MOTOR \o <<CH_9>>)>>
    /\ calls = <<>>

\* C6: a p, q, v, c or t line with fewer than two parsed numeric tokens, and
\* an f or u line with none, gets exactly one response, "invalid command
\* format", and changes nothing: no call on any axis, no axis field written.
C6_InvalidFormat ==
    [][(DispatchStep /\ TooFewFields(lines'[1]))
       => (responses' = <<TextResponse(MSG_INVALID_FORMAT)>> /\ NoAction)]_vars

\* "p 0" was answered "invalid command format" and nothing was done
C6_Witness ==
    /\ ndispatch > 0
    /\ lines = <<<<CH_p, CH_SPACE, CH_0>>>>
    /\ responses = <<TextResponse(MSG_INVALID_FORMAT)>>
    /\ calls = <<>>

\* C7: each dispatched line feeds the watchdog of axis a once when it is a
\* successful p, q, v, c, t or u command naming a, and not at all otherwise;
\* a successful f command makes no call, leaves every axis as it was and
\* emits the one response "<pos> <vel>".
C7_WatchdogFeeds ==
    [][DispatchStep
       => (/\ \A a \in AxisIdx :
                FeedCount(calls', a) =
                    IF /\ Successful(lines'[1])
                       /\ Tag(lines'[1]) # CH_f
                       /\ Scanned(lines'[1]).motor_number.lo = a
                    THEN 1 ELSE 0
           /\ (Successful(lines'[1]) /\ Tag(lines'[1]) = CH_f)
              => (/\ NoAction
                  /\ responses' = <<TextResponse(
                        FmtFloat(axes[Scanned(lines'[1]).motor_number.lo].pos_estimate_)
                          \o <<CH_SPACE>>
                          \o FmtFloat(axes[Scanned(lines'[1]).motor_number.lo].vel_estimate_))>>))]_vars

\* an f command, then a command that fed the watchdog of axis 1
C7_Witness ==
    /\ Len(dispatched) = 2
    /\ Successful(dispatched[1]) /\ Tag(dispatched[1]) = CH_f
    /\ Successful(dispatched[2])
    /\ calls # <<>>
    /\ calls[Len(calls)] = [fn |-> "watchdog_feed", axis |-> 1, args |-> <<>>]

\* the P or S line does not decode: wrong length or wrong checksum
DecodeFails(line) ==
    \/ Tag(line) = CH_P /\ (Len(line) # 6 \/ DualChecksum(line) # line[6])
    \/ Tag(line) = CH_S /\ (Len(line) # 14 \/ CoupledChecksum(line, 14) # line[14])

\* C8: a P or S line of the wrong length or with a wrong checksum changes no
\* axis, sends no binary frame, and gets exactly two text responses: the
\* failure message, then the line itself.
C8_FailureEchoesLine ==
    [][(DispatchStep /\ DecodeFails(lines'[1]))
       => (/\ NoAction
           /\ ~fault'
           /\ responses' =
                <<TextResponse(IF Tag(lines'[1]) = CH_P THEN MSG_FAILED_DUAL
                               ELSE MSG_FAILED_COUPLED),
                  TextResponse(lines'[1])>>)]_vars

\* the P or S line decodes
ValidDual(line) ==
    Len(line) = 6 /\ line[1] = CH_P /\ DualChecksum(line) = line[6]
ValidCoupled(line) ==
    Len(line) = 14 /\ line[1] = CH_S /\ CoupledChecksum(line, 14) = line[14]

\* the two calls (axis 0, then axis 1) a P line's values sp lead to
DualCalls(sp) ==
    <<[fn |-> "set_coupled_setpoints", axis |-> 0, args |-> sp],
      [fn |-> "set_coupled_setpoints", axis |-> 1, args |-> sp]>>

\* the four calls an S line's setpoints sp and gains g lead to
CoupledCalls(sp, g) ==
    <<[fn |-> "set_coupled_setpoints", axis |-> 0, args |-> sp],
      [fn |-> "set_coupled_gains", axis |-> 0, args |-> g],
      [fn |-> "set_coupled_setpoints", axis |-> 1, args |-> sp],
      [fn |-> "set_coupled_gains", axis |-> 1, args |-> g]>>

\* both axes hold the setpoints sp, as the calls cs put them, and the one
\* response is a binary feedback frame
BothAxesSet(sp, cs) ==
    /\ axes[0].coupled_setpoints = sp
    /\ axes[1].coupled_setpoints = sp
    /\ calls = cs
    /\ Len(responses) = 1
    /\ responses[1].kind = "binary"
    /\ output = <<START_BYTE, 6>> \o responses[1].text

DualApplied(r) ==
    BothAxesSet(<<r.i0 \div COUPLED_SCALE, r.i1 \div COUPLED_SCALE>>,
                DualCalls(<<r.i0 \div COUPLED_SCALE, r.i1 \div COUPLED_SCALE>>))

CoupledApplied(r) ==
    /\ BothAxesSet(<<r.sp_theta, r.sp_gamma>>,
                   CoupledCalls(<<r.sp_theta, r.sp_gamma>>,
                                <<r.kp_theta, r.kd_theta, r.kp_gamma, r.kd_gamma>>))
    /\ axes[0].coupled_gains = <<r.kp_theta, r.kd_theta, r.kp_gamma, r.kd_gamma>>
    /\ axes[1].coupled_gains = <<r.kp_theta, r.kd_theta, r.kp_gamma, r.kd_gamma>>

\* C9: after a 6-byte P line or a 14-byte S line whose checksum verifies,
\* axis 0 and axis 1 hold the same decoded setpoints (and, for S, the same
\* decoded gains), set by the same calls, and the dispatcher has emitted one
\* binary feedback frame and no text.
C9_BothAxesAlike ==
    ndispatch > 0 =>
        /\ ValidDual(lines[1]) => DualApplied(parse_dual_current(lines[1], 6))
        /\ ValidCoupled(lines[1]) => CoupledApplied(parse_coupled_command(lines[1], 14))

\* an S line with gains that are not zero was applied to both axes
C9_Witness ==
    /\ ndispatch > 0
    /\ ValidCoupled(lines[1])
    /\ axes[0].coupled_gains # <<0, 0, 0, 0>>
    /\ axes[1].coupled_gains = axes[0].coupled_gains
    /\ axes[1].coupled_setpoints = axes[0].coupled_setpoints
    /\ responses[1].kind = "binary"

\* the line is a 6-byte message with the tag 'C' whose checksum verifies
ValidDualC(line) ==
    Len(line) = 6 /\ line[1] = CH_C /\ DualChecksum(line) = line[6]

\* C11: a line whose first character is 'C' is taken as the binary dual-axis
\* current message, as a P line is: it is never answered "unknown command",
\* and when its six bytes verify, both axes get the two decoded values and
\* one binary feedback frame is sent.
C11_TagCDecoded ==
    (ndispatch > 0 /\ Tag(lines[1]) = CH_C) =>
        /\ responses # <<TextResponse(MSG_UNKNOWN)>>
        /\ ValidDualC(lines[1]) => DualApplied(parse_dual_current(lines[1], 6))

\* the first characters that have a branch of their own
RECOGNIZED_TAGS ==
    SINGLE_AXIS_TAGS \cup {CH_P, CH_S, CH_h, CH_i, CH_s, CH_r, CH_w}

\* a line of no bytes, or the line of a newline-terminated frame that has no
\* character before its newline
EmptyLine(line) == line = <<>> \/ line = <<NEWLINE>>

\* C12: an empty line (no bytes, or the newline alone) gets no response; any
\* other line whose first character is not NUL and is none of p, q, v, c, P,
\* S, t, f, h, i, s, r, w, u gets exactly one response, "unknown command";
\* neither calls a collaborator nor changes an axis.
C12_UnknownOrEmpty ==
    [][DispatchStep
       => (/\ EmptyLine(lines'[1]) => (responses' = <<>> /\ NoAction)
           /\ (/\ ~EmptyLine(lines'[1])
               /\ Tag(lines'[1]) \notin RECOGNIZED_TAGS \cup {CH_NUL})
              => (responses' = <<TextResponse(MSG_UNKNOWN)>> /\ NoAction))]_vars

\* C13: no response carries more text bytes than the response buffer of
\* respond() holds, also when the text is the echo of a P or S line of up to
\* 127 bytes that did not decode.
C13_ResponseFitsBuffer ==
    \A k \in 1..Len(responses) :
        responses[k].kind = "text" => Len(responses[k].text) <= RESPONSE_SIZE

\* the bytes that frame one response on the output: start byte, reserved
\* byte, text, CR LF (use_checksum is false in every call of the dispatcher);
\* start byte, length 6 and payload for the binary feedback frame
Envelope(r) ==
    IF r.kind = "text" THEN <<START_BYTE, 0>> \o r.text \o <<CH_CR, NEWLINE>>
    ELSE <<START_BYTE, 6>> \o r.text

\* a text that snprintf can have left in response[]: at most 63 characters,
\* none of them NUL
BufferedText(text) ==
    Len(text) <= RESPONSE_SIZE - 1 /\ \A i \in 1..Len(text) : text[i] # CH_NUL

\* C14: the output of a dispatcher call is the envelopes of its responses,
\* whole and in order: start byte 0x01, reserved byte 0x00, the text that
\* respond() formatted into its buffer and nothing else, CR LF; the help
\* command emits its lines in their order, one envelope each.
C14_OneEnvelopePerLine ==
    /\ output = Flatten([k \in 1..Len(responses) |-> Envelope(responses[k])])
    /\ \A k \in 1..Len(responses) :
          responses[k].kind = "text" => BufferedText(responses[k].text)
    /\ (ndispatch > 0 /\ Tag(lines[1]) = CH_h)
          => responses = [k \in 1..Len(HELP_LINES) |-> TextResponse(HELP_LINES[k])]

\* the property name an r or w line carries, and the value token of a w line
PropertyName(line) == ScanString(CStr(line), 2)
PropertyValue(line) == ScanString(CStr(line), PropertyName(line).next)

\* the one response to "r <name>"
ReadOutcome(name) ==
    IF ~get_by_name(name) THEN <<TextResponse(MSG_INVALID_PROPERTY)>>
    ELSE IF ~get_string(name).success THEN <<TextResponse(MSG_NOT_IMPLEMENTED)>>
    ELSE <<TextResponse(get_string(name).text)>>

\* the responses to "w <name> <value>"
WriteOutcome(name, value) ==
    IF ~get_by_name(name) THEN <<TextResponse(MSG_INVALID_PROPERTY)>>
    ELSE IF ~set_string(Dev, name, value).success
    THEN <<TextResponse(MSG_NOT_IMPLEMENTED)>>
    ELSE <<>>

\* C15: a line "r <name>" gets exactly one response: "invalid property" when
\* the tree has no such name, "not implemented" when the property cannot be
\* serialized, its serialized value otherwise; a line "w <name> <value>" gets
\* "invalid property", "not implemented" when the property cannot be
\* deserialized, and no response when the write succeeds.
C15_PropertyOutcome ==
    [][DispatchStep
       => (/\ (Tag(lines'[1]) = CH_r /\ PropertyName(lines'[1]).ok)
                => responses' = ReadOutcome(PropertyName(lines'[1]).val)
           /\ (/\ Tag(lines'[1]) = CH_w
               /\ PropertyName(lines'[1]).ok
               /\ PropertyValue(lines'[1]).ok)
                => responses' = WriteOutcome(PropertyName(lines'[1]).val,
                                             PropertyValue(lines'[1]).val))]_vars

\* "r x" was answered "invalid property" after "w v 1" had been written
\* without a response
C15_Witness ==
    /\ dispatched = <<<<CH_w, CH_SPACE, CH_v, CH_SPACE, 49>>, <<CH_r, CH_SPACE, 120>>>>
    /\ responses = <<TextResponse(MSG_INVALID_PROPERTY)>>

\* C19: a successful q command on axis a writes that axis's position
\* setpoint, its velocity limit only when a third field was parsed and its
\* current limit only when a fourth was; a limit without a field keeps its
\* value, every other field of the axis and the whole other axis stay as they
\* were, and the only call is the watchdog feed of axis a.
C19_LimitsOnlyWhenGiven ==
    [][(DispatchStep /\ Successful(lines'[1]) /\ Tag(lines'[1]) = CH_q)
       => LET sc == Scanned(lines'[1])
              a == sc.motor_number.lo
          IN  /\ \A b \in AxisIdx \ {a} : axes'[b] = axes[b]
              /\ axes'[a] =
                    [axes[a] EXCEPT
                       !.pos_setpoint_ = sc.vals[1],
                       !.vel_limit = IF sc.numscan >= 3 THEN sc.vals[2] ELSE @,
                       !.current_lim = IF sc.numscan >= 4 THEN sc.vals[3] ELSE @]
              /\ calls' = <<[fn |-> "watchdog_feed", axis |-> a, args |-> <<>>]>>
              /\ responses' = <<>>]_vars

\* "q 1 -2 3" set the velocity limit of axis 1 to 3, then "q 1 4" moved the
\* setpoint to 4 and left the limit at 3
C19_Witness ==
    /\ Len(dispatched) = 2
    /\ Tag(dispatched[2]) = CH_q
    /\ Scanned(dispatched[2]).numscan = 2
    /\ axes[1].pos_setpoint_ = 4 * MICRO
    /\ axes[1].vel_limit = 3 * MICRO
    /\ axes[0] = NewAxis(axes[0].pos_estimate_, axes[0].vel_estimate_)

\* C22: every set_string call a w line leads to is given the name and the
\* value token that were parsed from that line; a w line with a name and no
\* value token leads to no set_string call.
C22_WriteOnlyParsedValue ==
    [][(DispatchStep /\ Tag(lines'[1]) = CH_w)
       => \A k \in 1..Len(calls') :
             calls'[k].fn = "set_string"
                => /\ PropertyValue(lines'[1]).ok
                   /\ calls'[k].args = <<PropertyName(lines'[1]).val,
                                         PropertyValue(lines'[1]).val>>]_vars

(* ------------------------------------------------------------------ *)
(* SpecCodec: the two binary decoders, and messages with one byte     *)
(* replaced                                                           *)
(* ------------------------------------------------------------------ *)
DUAL_MSGS == {WithChecksum(body) : body \in DUAL_BODIES} \cup BAD_DUAL_LINES

COUPLED_MSGS == {WithChecksum(body) : body \in COUPLED_BODIES} \cup BAD_COUPLED_LINES

\* parse_dual_current(m, Len(m), i0, i1), as the record kept in decoded
DualDecoded(r) == [fn |-> "dual", result |-> r.result, values |-> <<r.i0, r.i1>>]

\* parse_coupled_command(m, Len(m), ...), as the record kept in decoded
CoupledDecoded(r) ==
    [fn |-> "coupled", result |-> r.result,
     values |-> <<r.sp_theta, r.kp_theta, r.kd_theta,
                  r.sp_gamma, r.kp_gamma, r.kd_gamma>>]

\* the decoder fn applied to the message m
Decoded(fn, m) ==
    IF fn = "dual" THEN DualDecoded(parse_dual_current(m, Len(m)))
    ELSE CoupledDecoded(parse_coupled_command(m, Len(m)))

codecFrame == <<rx_state, parse_buffer, parse_buffer_idx, payload_length, axes,
                calls, output, responses, lines, fault, oob, consumed,
                dispatched, pending, frames, ndispatch, feedback>>

InitCodec ==
    /\ InitWith(<<0, 0, 0, 0>>)
    /\ pending = <<>>
    /\ frames = <<>>

\* a message is given to parse_dual_current
DecodeDual ==
    /\ \E m \in DUAL_MSGS : msg' = m /\ decoded' = Decoded("dual", m)
    /\ UNCHANGED codecFrame

\* a message is given to parse_coupled_command
DecodeCoupled ==
    /\ \E m \in COUPLED_MSGS : msg' = m /\ decoded' = Decoded("coupled", m)
    /\ UNCHANGED codecFrame

\* the message that decoded is given to the same decoder again with one of
\* its bytes replaced by any other value
Corrupt ==
    /\ decoded.result = 1
    /\ \E i \in 1..Len(msg) : \E b \in Byte \ {msg[i]} :
          /\ msg' = [msg EXCEPT ![i] = b]
          /\ decoded' = Decoded(decoded.fn, [msg EXCEPT ![i] = b])
    /\ UNCHANGED codecFrame

NextCodec == DecodeDual \/ DecodeCoupled \/ Corrupt

SpecCodec == InitCodec /\ [][NextCodec]_vars

\* the indices at which the messages m and n of one length differ
DiffersAt(m, n) == {i \in 1..Len(m) : m[i] # n[i]}

\* C10: when a 6-byte message decodes in parse_dual_current, or a 14-byte
\* message in parse_coupled_command, the message with any one byte replaced
\* by any other value does not: the same decoder returns -1 for it.
C10_OneByteCorruptionFails ==
    [][(/\ decoded.result = 1
        /\ decoded'.fn = decoded.fn
        /\ Len(msg') = Len(msg)
        /\ Cardinality(DiffersAt(msg, msg')) = 1)
       => decoded'.result = -1]_vars

\* a 14-byte message was refused that differs in its byte 8 alone (a payload
\* byte) from one that parse_coupled_command accepts
C10_Witness ==
    /\ decoded.fn = "coupled"
    /\ decoded.result = -1
    /\ Len(msg) = 14
    /\ \E b \in Byte : parse_coupled_command([msg EXCEPT ![9] = b], 14).result = 1

(* ------------------------------------------------------------------ *)
(* SpecFeedback: the binary feedback frame, written by                *)
(* send_motor_positions and read back by the assembler and by         *)
(* parse_dual_current                                                 *)
(* ------------------------------------------------------------------ *)
\* int16_t values: the extremes, values around zero, and values whose bytes
\* are the start byte, the newline, NUL, '%' and the tag 'P'
WORDS16 ==
    {-32768, -32767, -257, -1, 0, 1, 10, 256, 266, 9509, 20560, 32767}

\* the bytes send_motor_positions writes for theta_16 and gamma_16: start
\* byte, len_byte 6, 'P', the two values, the checksum
FeedbackFrame(theta_16, gamma_16) ==
    <<START_BYTE>> \o <<6>> \o FeedbackPayload(theta_16, gamma_16)

InitFeedback ==
    /\ \E est \in ESTIMATES : InitWith(est)
    /\ pending = <<>>
    /\ frames = <<>>

\* a feedback frame with any two 16-bit values is on its way to the assembler
WriteFeedback ==
    /\ feedback = <<>>
    /\ \E theta_16 \in WORDS16 : \E gamma_16 \in WORDS16 :
          /\ feedback' = <<theta_16, gamma_16>>
          /\ pending' = FeedbackFrame(theta_16, gamma_16)
    /\ UNCHANGED <<rx_state, parse_buffer, parse_buffer_idx, payload_length, axes,
                   calls, output, responses, lines, fault, oob, consumed,
                   dispatched, frames, ndispatch, msg, decoded>>

\* send_motor_positions(response_channel) runs on the encoder estimates, and
\* what it wrote is on its way to the assembler
SendPositions ==
    /\ feedback = <<>>
    /\ feedback' = MotorAngles(Dev)
    /\ pending' = send_motor_positions(Dev).output
    /\ SetDev(send_motor_positions(Dev))
    /\ UNCHANGED <<rx_state, parse_buffer, parse_buffer_idx, payload_length,
                   lines, oob, consumed, dispatched, frames, ndispatch, msg,
                   decoded>>

\* the line the assembler dispatched is given to parse_dual_current
DecodeLine ==
    /\ pending = <<>>
    /\ dispatched # <<>>
    /\ msg = <<>>
    /\ msg' = dispatched[1]
    /\ decoded' = Decoded("dual", dispatched[1])
    /\ UNCHANGED <<rx_state, parse_buffer, parse_buffer_idx, payload_length, axes,
                   calls, output, responses, lines, fault, oob, consumed,
                   dispatched, pending, frames, ndispatch, feedback>>

NextFeedback == WriteFeedback \/ SendPositions \/ Deliver \/ DecodeLine

SpecFeedback == InitFeedback /\ [][NextFeedback]_vars

\* C21: the feedback frame written for any two 16-bit values theta and gamma
\* makes the assembler dispatch nothing before its last byte and then exactly
\* one line, of 6 bytes; parse_dual_current accepts that line (length and
\* checksum) and returns theta / 100 and gamma / 100, the two values sent.
C21_FeedbackRoundTrip ==
    feedback # <<>> =>
        /\ pending # <<>> => dispatched = <<>>
        /\ pending = <<>>
             => /\ Len(dispatched) = 1
                /\ Len(dispatched[1]) = 6
                /\ Word16(dispatched[1], 1) = ToUint16(feedback[1])
                /\ Word16(dispatched[1], 3) = ToUint16(feedback[2])
        /\ decoded.fn = "dual"
             => /\ decoded.result = 1
                /\ decoded.values =
                     <<feedback[1] * (MICRO \div DUAL_MULTIPLIER),
                       feedback[2] * (MICRO \div DUAL_MULTIPLIER)>>

\* the frame for theta = -32768 and gamma = 266 (bytes 0A 01) was dispatched
\* as one line and decoded to -327.68 and 2.66
C21_Witness ==
    /\ feedback = <<-32768, 266>>
    /\ Len(msg) = 6
    /\ decoded = [fn |-> "dual", result |-> 1,
                  values |-> <<-327680000, 2660000>>]

====
